---- MODULE Spec2Model ----
(***************************************************************************)
(* Model of the contact deduplication pipeline of crm-entity-resolver:     *)
(*   src/src/pipeline.py        EntityResolutionPipeline                   *)
(*   src/src/entity_resolver.py EntityResolver (oracle adapter)            *)
(*   src/src/merge_strategy.py  MergeStrategy                              *)
(*                                                                         *)
(* Conventions                                                             *)
(*   - a record (contact) is a function from field names to values; an     *)
(*     absent key is absent from its DOMAIN;                               *)
(*   - confidences are counted in tenths (7 stands for 0.7);               *)
(*   - Python lists are sequences, Python dicts (insertion ordered) are    *)
(*     sequences of entries [key, ...];                                    *)
(*   - JSON scalars are tagged records [t |-> type, v |-> Int].            *)
(***************************************************************************)
EXTENDS Integers, Sequences, FiniteSets, TLC

VARIABLES
    pc,              \* position of the run
    evaluation,      \* Evaluator.evaluate: its argument ground_truth and its locals
    contacts,        \* deduplicate's / evaluate's argument
    blocks,          \* find_duplicates: blocks (dict in insertion order)
    pairs_to_compare,\* find_duplicates: list of (contact_a, contact_b)
    pair_contacts,   \* find_duplicates: list of (idx_a, idx_b)
    answer,          \* find_duplicates: the line input() returned at the prompt
    proceed,         \* find_duplicates: that line, stripped and lower-cased
    batch_start,     \* find_duplicates: loop variable of the batch loop
    attempts,        \* _call_llm: failed attempts of the call in progress
    content,         \* should_merge: what the last batch's call produced
    decisions,       \* find_duplicates: decisions of the last batch (a list)
    batch_indices,   \* find_duplicates: pair_contacts slice of the last batch
    compared,        \* find_duplicates: comparison counter
    duplicates,      \* find_duplicates: accepted pairs / duplicate_pairs
    merges_used,     \* positive answers the oracle has given in this run
    merge_groups,    \* deduplicate / _build_merge_groups result
    merged_entities, \* deduplicate: merged entities
    merge_history,   \* MergeStrategy.merge_history
    output,          \* deduplicate: returned list
    stats            \* deduplicate: returned statistics

vars == <<pc, evaluation, contacts, blocks, pairs_to_compare, pair_contacts, answer, proceed,
          batch_start,
          attempts, content, decisions, batch_indices, compared,
          duplicates, merges_used, merge_groups, merged_entities,
          merge_history, output, stats>>

-----------------------------------------------------------------------------
(* Bounds of the model *)

\* largest number of input records of an input that needs one batch
MaxContacts == 4
\* largest number of should_merge = true answers the oracle gives in one run
MaxMerges == 3
\* SpecCluster: number of distinct record ids
NumIds == 4
\* SpecCluster: largest length of an accepted-pair sequence
MaxPairs == 3
\* SpecMerge: largest number of records of a group
MaxGroup == 2
\* SpecPrompt: largest number of input records
MaxPromptContacts == 2
\* SpecEval: largest number of ground-truth rows of an input that needs one
\* batch
MaxRows == 2

(* Program constants *)

\* pipeline.py:40
batch_size == 6
\* pipeline.py:24, in tenths
confidence_threshold == 7
\* entity_resolver.py:137 stop_after_attempt(3)
MaxAttempts == 3

-----------------------------------------------------------------------------
(* Generic list helpers *)

Range(s) == {s[k] : k \in 1..Len(s)}

\* Python slice s[a:b] with 0-based a, b (0 <= a)
Slice(s, a, b) ==
    LET hi == IF b < Len(s) THEN b ELSE Len(s)
    IN  IF a >= hi THEN <<>> ELSE [k \in 1..(hi - a) |-> s[a + k]]

\* variant: the decisions are paired with the batch read backwards
Zip_Reversed(a, b) ==
    LET n == IF Len(a) < Len(b) THEN Len(a) ELSE Len(b)
    IN  [k \in 1..n |-> <<a[k], b[Len(b) - k + 1]>>]

\* Python zip(a, b): pairs up to the shorter length
Zip(a, b) ==
    LET n == IF Len(a) < Len(b) THEN Len(a) ELSE Len(b)
    IN  [k \in 1..n |-> <<a[k], b[k]>>]

RECURSIVE SumSeq(_)
SumSeq(s) == IF s = <<>> THEN 0 ELSE Head(s) + SumSeq(Tail(s))

RECURSIVE Flatten(_)
Flatten(ss) == IF ss = <<>> THEN <<>> ELSE Head(ss) \o Flatten(Tail(ss))

-----------------------------------------------------------------------------
(* Records *)

\* company values of the input; absent company = no "company" key
Companies == {"Acme", "ACME"}

\* str.lower() on the company values and the prompt answers of the model
Lower(s) ==
    CASE s = "Acme" -> "acme"
      [] s = "ACME" -> "acme"
      [] s = "Y" -> "y"
      [] s = "N" -> "n"
      [] s = "Yes" -> "yes"
      [] OTHER -> s

\* str.strip() on the prompt answers of the model
Strip(s) ==
    CASE s = " y " -> "y"
      [] s = " Y" -> "Y"
      [] OTHER -> s

\* the value None of a field (field values of the model are strings)
None == "<None>"

\* value.lower() raises AttributeError: None has no such method
LowerRaises(value) == value = None

\* evaluate has not been called
NoEvaluation == [ground_truth |-> <<>>]

\* dict.get(key, default)
Get(d, key, default) == IF key \in DOMAIN d THEN d[key] ELSE default

\* the record ids of the model, all different
RecordIds == <<"r1", "r2", "r3", "r4", "r5", "r6", "r7", "r8">>

\* the records an input may hold at position i (ids are unique)
RecordAt(i, c) ==
    IF c = "" THEN [id |-> RecordIds[i]]
    ELSE [id |-> RecordIds[i], company |-> c]

\* number of pairs of records that share a company up to letter case, f
\* being the company values of n records ("" = no company key)
SharingPairs(f, n) ==
    Cardinality({p \in (1..n) \X (1..n) :
                    p[1] < p[2] /\ Lower(f[p[1]]) = Lower(f[p[2]])})

\* the smallest number of records of one company that needs a second batch
LargeBlock ==
    CHOOSE m \in 2..(batch_size + 2) :
        /\ m * (m - 1) > 2 * batch_size
        /\ (m - 1) * (m - 2) <= 2 * batch_size

\* the inputs of deduplicate: 1..MaxContacts records of any company that
\* need at most one batch, and LargeBlock records of one company
ContactLists ==
    UNION {{[i \in 1..n |-> RecordAt(i, f[i])] :
                f \in {g \in [1..n -> Companies \cup {""}] :
                          SharingPairs(g, n) <= batch_size}} :
           n \in 1..MaxContacts}
    \cup {[i \in 1..LargeBlock |-> RecordAt(i, "Acme")]}

-----------------------------------------------------------------------------
(* find_duplicates: blocking and pair generation, pipeline.py:44-62 *)

\* key = contact.get('company', 'unknown').lower()
BlockKey(contact) == Lower(Get(contact, "company", "unknown"))

\* index of the entry of an ordered dict with the given key, 0 if none
RECURSIVE KeyIndex(_, _, _)
KeyIndex(d, key, k) ==
    IF k > Len(d) THEN 0
    ELSE IF d[k].key = key THEN k ELSE KeyIndex(d, key, k + 1)

\* blocks.setdefault(key, []).append((i, contact))
BlockAppend(bl, key, item) ==
    LET k == KeyIndex(bl, key, 1)
    IN  IF k = 0 THEN Append(bl, [key |-> key, members |-> <<item>>])
        ELSE [bl EXCEPT ![k].members = Append(@, item)]

\* the loop of pipeline.py:46-48 over contacts[i..]; indices are 0-based
RECURSIVE BuildBlocks(_, _, _)
BuildBlocks(cs, i, bl) ==
    IF i > Len(cs) THEN bl
    ELSE BuildBlocks(cs, i + 1,
                     BlockAppend(bl, BlockKey(cs[i]),
                                 [idx |-> i - 1, contact |-> cs[i]]))

\* variant: j runs from i, so a record is also paired with itself
BlockPairs_FromSelf(block) ==
    LET n == Len(block)
        row(i) == [k \in 1..(n - i + 1) |-> <<block[i], block[i + k - 1]>>]
    IN  Flatten([i \in 1..n |-> row(i)])

\* the loops of pipeline.py:57-62 for one block: all (i, j) with i < j,
\* i ascending, then j ascending
BlockPairs(block) ==
    LET n == Len(block)
        row(i) == [k \in 1..(n - i) |-> <<block[i], block[i + k]>>]
    IN  Flatten([i \in 1..n |-> row(i)])

\* variant: pairs over all records, whatever their block
GeneratedPairs_AcrossBlocks(bl) ==
    BlockPairs(Flatten([b \in 1..Len(bl) |-> bl[b].members]))

\* pipeline.py:56: for block in blocks.values()
GeneratedPairs(bl) == Flatten([b \in 1..Len(bl) |-> BlockPairs(bl[b].members)])

-----------------------------------------------------------------------------
(* JSON values of the oracle's answer *)

\* scalars: tagged, so that a value of the wrong type can be told apart
JBool(b) == [t |-> "bool", v |-> IF b THEN 1 ELSE 0]
JNum(x) == [t |-> "num", v |-> x]
\* strings by number: 0 the empty string, 1 a free text, 2 the text of an
\* error ("Error: ...")
JStr(k) == [t |-> "str", v |-> k]
JNull == [t |-> "null", v |-> 0]

\* a JSON object is a function from keys to scalars; any other list element
\* is a scalar
IsObject(e) == "t" \notin DOMAIN e

\* Python truthiness of a scalar
Truthy(x) ==
    CASE x.t = "bool" -> x.v = 1
      [] x.t = "num" -> x.v # 0
      [] x.t = "str" -> x.v # 0
      [] OTHER -> FALSE

\* the value a number or a bool has in a comparison, in tenths (True is 1.0)
NumVal(x) == IF x.t = "bool" THEN 10 * x.v ELSE x.v

\* x >= y is defined between numbers (and bools); TypeError otherwise
Comparable(x) == x.t \in {"num", "bool"}

-----------------------------------------------------------------------------
(* EntityResolver.should_merge, entity_resolver.py:151-191 *)

\* MatchDecision (dataclass, no validation of the attribute types);
\* evidence_for / evidence_against are not read by the pipeline
MatchDecision(sm, conf, reasoning) ==
    [should_merge |-> sm, confidence |-> conf, reasoning |-> reasoning]

\* entity_resolver.py:190  MatchDecision(False, 0.0, f"Error: {str(e)}", [], [])
ErrorDecision == MatchDecision(JBool(FALSE), JNum(0), JStr(2))

\* The text of an answer is a list of tokens: "FJ" the fence ```json, "F" the
\* fence ```, "P" prose, "J" the text of the JSON document of the answer.
\* str.split(sep): the segments between the separators
RECURSIVE SplitAt(_, _, _)
SplitAt(tokens, seps, cur) ==
    IF tokens = <<>> THEN <<cur>>
    ELSE IF Head(tokens) \in seps
         THEN <<cur>> \o SplitAt(Tail(tokens), seps, <<>>)
         ELSE SplitAt(Tail(tokens), seps, Append(cur, Head(tokens)))

\* entity_resolver.py:165-168
\*   "```" is a substring of "```json": splitting at ``` also splits at FJ
\*   (the rest "json" of the fence then stays in the text)
StripFences(tokens) ==
    IF "FJ" \in Range(tokens)
    THEN SplitAt(SplitAt(tokens, {"FJ"}, <<>>)[2], {"F"}, <<>>)[1]
    ELSE IF "F" \in Range(tokens)
         THEN SplitAt(tokens, {"F"}, <<>>)[2]
         ELSE tokens

\* json.loads(content.strip()) succeeds iff the text is one JSON document
JsonLoads(segment, json) ==
    IF segment = <<"J">> /\ json.k # "garbage"
    THEN [ok |-> TRUE, value |-> json]
    ELSE [ok |-> FALSE, value |-> json]

\* r["should_merge"], r["confidence"], r["reasoning"] all succeed
\* (a top-level object arrives here as value [k |-> "obj", items |-> <<o>>])
Subscriptable(r) ==
    /\ IsObject(r)
    /\ {"should_merge", "confidence", "reasoning"} \subseteq DOMAIN r

\* entity_resolver.py:172-173: a result that is no list becomes a list of one
ResultList(value) ==
    IF value.k = "list" THEN value.items
    ELSE IF value.k = "obj" THEN value.items
    ELSE <<JNull>>

\* variant: one error decision, whatever the number of pairs
ErrorResult_Single(n) == <<ErrorDecision>>

\* entity_resolver.py:190-191 with pipeline.py:79-80: the error decision for
\* one pair, a list of n of it otherwise; the scanner makes the single
\* decision a list of one
ErrorResult(n) == [k \in 1..n |-> ErrorDecision]

\* the value returned by should_merge, as a list (pipeline.py:79-80 wraps a
\* single decision); cont is what _call_llm produced for the n pairs
should_merge(n, cont) ==
    LET errors == ErrorResult(n)
    IN  IF cont.kind # "text" THEN errors
        ELSE LET parsed == JsonLoads(StripFences(cont.shape), cont.json)
                 result == ResultList(cont.json)
             IN  IF ~parsed.ok THEN errors
                 ELSE IF \E k \in 1..Len(result) : ~Subscriptable(result[k])
                      THEN errors
                      ELSE [k \in 1..Len(result) |->
                               MatchDecision(result[k].should_merge,
                                             result[k].confidence,
                                             result[k].reasoning)]

-----------------------------------------------------------------------------
(* find_duplicates: the loop over one batch's decisions, pipeline.py:82-109 *)

\* pipeline.py:94-95: f"{decision.confidence:.2f}" and decision.reasoning[:100]
LogRaises(d) ==
    \/ d.confidence.t \in {"str", "null"}
    \/ d.reasoning.t # "str"

\* variant: the scanner raises on the error decision of a failed batch
TestRaises_OnErrorDecision(d) ==
    \/ d = ErrorDecision
    \/ Truthy(d.should_merge) /\ ~Comparable(d.confidence)

\* pipeline.py:97: decision.should_merge and decision.confidence >= threshold
\* raises TypeError when the left operand is truthy and the confidence is
\* not a number
TestRaises(d) == Truthy(d.should_merge) /\ ~Comparable(d.confidence)

\* variant: a confidence equal to the threshold is not enough
Accepts_AboveOnly(d) ==
    /\ Truthy(d.should_merge)
    /\ Comparable(d.confidence)
    /\ NumVal(d.confidence) > confidence_threshold

Accepts(d) ==
    /\ Truthy(d.should_merge)
    /\ Comparable(d.confidence)
    /\ NumVal(d.confidence) >= confidence_threshold

\* one iteration per element of zip(decisions, batch_indices); st is
\* [compared, duplicates, raised]
RECURSIVE ApplyDecisions(_, _, _)
ApplyDecisions(zipped, cs, st) ==
    IF zipped = <<>> \/ st.raised THEN st
    ELSE LET d == Head(zipped)[1]
             i == Head(zipped)[2][1]
             j == Head(zipped)[2][2]
             c == st.compared + 1
         IN  IF (c % 10 = 0 /\ LogRaises(d)) \/ TestRaises(d)
             THEN [st EXCEPT !.compared = c, !.raised = TRUE]
             ELSE ApplyDecisions(
                    Tail(zipped), cs,
                    [st EXCEPT
                       !.compared = c,
                       !.duplicates =
                          IF Accepts(d)
                          THEN Append(@, <<cs[i + 1], cs[j + 1], d.confidence>>)
                          ELSE @])

-----------------------------------------------------------------------------
(* EntityResolutionPipeline._build_merge_groups, pipeline.py:149-192 *)

\* d[key] of an ordered dict (the key is present)
Lookup(d, key) == d[KeyIndex(d, key, 1)].value

\* d[key] = value
Assign(d, key, value) ==
    LET k == KeyIndex(d, key, 1)
    IN  IF k = 0 THEN Append(d, [key |-> key, value |-> value])
        ELSE [d EXCEPT ![k].value = value]

\* variant: the edge is recorded from id_a to id_b only
AddEdge_Directed(adj, id_a, id_b) ==
    LET a1 == IF KeyIndex(adj, id_a, 1) = 0 THEN Assign(adj, id_a, <<>>) ELSE adj
        a2 == IF KeyIndex(a1, id_b, 1) = 0 THEN Assign(a1, id_b, <<>>) ELSE a1
    IN  Assign(a2, id_a, Append(Lookup(a2, id_a), id_b))

\* pipeline.py:162-166 for one pair
AddEdge(adj, id_a, id_b) ==
    LET a1 == IF KeyIndex(adj, id_a, 1) = 0 THEN Assign(adj, id_a, <<>>) ELSE adj
        a2 == IF KeyIndex(a1, id_b, 1) = 0 THEN Assign(a1, id_b, <<>>) ELSE a1
        a3 == Assign(a2, id_a, Append(Lookup(a2, id_a), id_b))
    IN  Assign(a3, id_b, Append(Lookup(a3, id_b), id_a))

\* pipeline.py:157-166: g is [adj, id_map]
RECURSIVE BuildGraph(_, _)
BuildGraph(pairs, g) ==
    IF pairs = <<>> THEN g
    ELSE LET ea == Head(pairs)[1]
             eb == Head(pairs)[2]
         IN  BuildGraph(Tail(pairs),
                        [adj |-> AddEdge(g.adj, ea.id, eb.id),
                         id_map |-> Assign(Assign(g.id_map, ea.id, ea),
                                           eb.id, eb)])

\* pipeline.py:181-184: w is [visited, stack]
RECURSIVE PushNeighbors(_, _)
PushNeighbors(nbrs, w) ==
    IF nbrs = <<>> THEN w
    ELSE PushNeighbors(
           Tail(nbrs),
           IF Head(nbrs) \in w.visited THEN w
           ELSE [visited |-> w.visited \cup {Head(nbrs)},
                 stack |-> Append(w.stack, Head(nbrs))])

\* pipeline.py:178-184: w is [visited, stack], stack.pop() takes the last
RECURSIVE Traverse(_, _, _)
Traverse(g, w, component) ==
    IF w.stack = <<>> THEN [visited |-> w.visited, component |-> component]
    ELSE LET node == w.stack[Len(w.stack)]
             rest == SubSeq(w.stack, 1, Len(w.stack) - 1)
         IN  Traverse(g,
                      PushNeighbors(Lookup(g.adj, node),
                                    [visited |-> w.visited, stack |-> rest]),
                      Append(component, Lookup(g.id_map, node)))

\* variant: the visited set of a traversal is not kept for the next key
RECURSIVE Components_ForgetsVisited(_, _, _, _)
Components_ForgetsVisited(g, k, visited, groups) ==
    IF k > Len(g.adj) THEN groups
    ELSE LET uid == g.adj[k].key
             r == Traverse(g, [visited |-> {uid}, stack |-> <<uid>>], <<>>)
         IN  Components_ForgetsVisited(g, k + 1, visited,
                                       Append(groups, r.component))

\* pipeline.py:173-186: for uid in adj, from the k-th key on
RECURSIVE Components(_, _, _, _)
Components(g, k, visited, groups) ==
    IF k > Len(g.adj) THEN groups
    ELSE LET uid == g.adj[k].key
         IN  IF uid \in visited THEN Components(g, k + 1, visited, groups)
             ELSE LET r == Traverse(g, [visited |-> visited \cup {uid},
                                        stack |-> <<uid>>], <<>>)
                  IN  Components(g, k + 1, r.visited,
                                 Append(groups, r.component))

_build_merge_groups(duplicate_pairs) ==
    Components(BuildGraph(duplicate_pairs, [adj |-> <<>>, id_map |-> <<>>]),
               1, {}, <<>>)

-----------------------------------------------------------------------------
(* MergeStrategy, merge_strategy.py:59-176 *)

\* a value Python takes as false: the empty string or None
Falsy(value) == value \in {"", None}

\* the order in which a record lists its keys (dicts keep insertion order;
\* the records of the data set are written in this order of fields)
FieldOrder ==
    <<"id", "first_name", "last_name", "full_name", "email", "phone",
      "company", "title", "linkedin", "location", "source">>

\* entity.items(): the keys of the record, in order
Keys(entity) == SelectSeq(FieldOrder, LAMBDA f : f \in DOMAIN entity)

\* name values that contain a period character
HasPeriod(value) == value \in {"S. Chen", "J. Doe"}

\* variant: a value already seen is collected again
RECURSIVE CollectFromEntity_NoDedup(_, _, _)
CollectFromEntity_NoDedup(entity, field_names, a) ==
    IF field_names = <<>> THEN a
    ELSE LET f == Head(field_names)
             keep == f \in DOMAIN entity /\ ~Falsy(entity[f])
         IN  CollectFromEntity_NoDedup(
               entity, Tail(field_names),
               IF keep
               THEN [variations |->
                        Append(a.variations,
                               [value |-> entity[f],
                                field |-> f,
                                source |-> Get(entity, "source", "unknown"),
                                record_id |-> Get(entity, "id", "unknown")]),
                     seen_values |-> a.seen_values \cup {entity[f]}]
               ELSE a)

\* merge_strategy.py:116-128 for one entity; a is [variations, seen_values]
RECURSIVE CollectFromEntity(_, _, _)
CollectFromEntity(entity, field_names, a) ==
    IF field_names = <<>> THEN a
    ELSE LET f == Head(field_names)
             keep == /\ f \in DOMAIN entity
                     /\ ~Falsy(entity[f])
                     /\ entity[f] \notin a.seen_values
         IN  CollectFromEntity(
               entity, Tail(field_names),
               IF keep
               THEN [variations |->
                        Append(a.variations,
                               [value |-> entity[f],
                                field |-> f,
                                source |-> Get(entity, "source", "unknown"),
                                record_id |-> Get(entity, "id", "unknown")]),
                     seen_values |-> a.seen_values \cup {entity[f]}]
               ELSE a)

RECURSIVE CollectLoop(_, _, _)
CollectLoop(entities, field_names, a) ==
    IF entities = <<>> THEN a.variations
    ELSE CollectLoop(Tail(entities), field_names,
                     CollectFromEntity(Head(entities), field_names, a))

\* merge_strategy.py:106-130
_collect_field_variations(entities, field_names) ==
    CollectLoop(entities, field_names, [variations |-> <<>>, seen_values |-> {}])

\* variant: the first variant, abbreviated or not
_choose_canonical_value_First(variations) ==
    IF variations = <<>> THEN "Unknown" ELSE variations[1].value

\* merge_strategy.py:163-176
_choose_canonical_value(variations) ==
    IF variations = <<>> THEN "Unknown"
    ELSE LET full_names == SelectSeq(variations, LAMBDA var : ~HasPeriod(var.value))
         IN  IF full_names # <<>> THEN full_names[1].value
             ELSE variations[1].value

\* merge_strategy.py:140-151 and 189-200 for one entity: d is an ordered
\* dict from field to the list of entries, keys the fields still to visit;
\* tagged entries carry source and record_id
RECURSIVE GatherFromEntity(_, _, _, _)
GatherFromEntity(entity, keys, exclude, d) ==
    IF keys = <<>> THEN d
    ELSE LET key == Head(keys)
             entry == [value |-> entity[key],
                       source |-> Get(entity, "source", "unknown"),
                       record_id |-> Get(entity, "id", "unknown")]
         IN  GatherFromEntity(
               entity, Tail(keys), exclude,
               IF key \in exclude \/ Falsy(entity[key]) THEN d
               ELSE IF KeyIndex(d, key, 1) = 0 THEN Assign(d, key, <<entry>>)
               ELSE Assign(d, key, Append(Lookup(d, key), entry)))

RECURSIVE GatherLoop(_, _, _)
GatherLoop(entities, exclude, d) ==
    IF entities = <<>> THEN d
    ELSE GatherLoop(Tail(entities), exclude,
                    GatherFromEntity(Head(entities), Keys(Head(entities)),
                                     exclude, d))

\* merge_strategy.py:178-202
_collect_other_fields(entities, exclude) == GatherLoop(entities, exclude, <<>>)

\* variant: a field outside the buckets is excluded as well
OtherExclude_WithLinkedin ==
    {"full_name", "first_name", "last_name", "email", "phone", "company",
     "title", "linkedin", "id", "source"}

\* merge_strategy.py:86
OtherExclude ==
    {"full_name", "first_name", "last_name", "email", "phone", "company",
     "title", "id", "source"}

\* variant: a field is a conflict as soon as two records hold a value for it
_detect_conflicts_ByCount(entities) ==
    LET field_values == GatherLoop(entities, {"id", "source"}, <<>>)
        unique_values(k) ==
            {field_values[k].value[v].value : v \in 1..Len(field_values[k].value)}
        RECURSIVE Conflicts(_)
        Conflicts(k) ==
            IF k > Len(field_values) THEN <<>>
            ELSE (IF Len(field_values[k].value) > 1
                  THEN <<[field |-> field_values[k].key,
                          values |-> unique_values(k)]>>
                  ELSE <<>>)
                 \o Conflicts(k + 1)
    IN  Conflicts(1)

\* merge_strategy.py:132-161; list(unique_values) has no defined order, so
\* the values of a conflict are kept as a set
_detect_conflicts(entities) ==
    LET field_values == GatherLoop(entities, {"id", "source"}, <<>>)
        unique_values(k) ==
            {field_values[k].value[v].value : v \in 1..Len(field_values[k].value)}
        RECURSIVE Conflicts(_)
        Conflicts(k) ==
            IF k > Len(field_values) THEN <<>>
            ELSE (IF Cardinality(unique_values(k)) > 1
                  THEN <<[field |-> field_values[k].key,
                          values |-> unique_values(k)]>>
                  ELSE <<>>)
                 \o Conflicts(k + 1)
    IN  Conflicts(1)

\* variant: source_records keeps one record per id
merge_entities_OnePerId(entities, primary_id) ==
    LET all_names == _collect_field_variations(
                        entities, <<"full_name", "first_name", "last_name">>)
        first(k) == \A m \in 1..(k - 1) : entities[m].id # entities[k].id
        kept == {k \in 1..Len(entities) : first(k)}
        RECURSIVE Pick(_)
        Pick(k) == IF k > Len(entities) THEN <<>>
                   ELSE (IF k \in kept THEN <<entities[k]>> ELSE <<>>)
                        \o Pick(k + 1)
    IN  [canonical_id |-> IF primary_id # "" THEN primary_id
                          ELSE Get(entities[1], "id", "merged_entity"),
         canonical_name |-> _choose_canonical_value(all_names),
         all_names |-> all_names,
         all_emails |-> _collect_field_variations(entities, <<"email">>),
         all_phones |-> _collect_field_variations(entities, <<"phone">>),
         all_companies |-> _collect_field_variations(entities, <<"company">>),
         all_titles |-> _collect_field_variations(entities, <<"title">>),
         other_fields |-> _collect_other_fields(entities, OtherExclude),
         source_records |-> Pick(1),
         conflicts |-> _detect_conflicts(entities)]

\* merge_strategy.py:71-104 for a non-empty list (primary_id "" is None); the
\* entity's merge_timestamp is left out
merge_entities(entities, primary_id) ==
    LET all_names == _collect_field_variations(
                        entities, <<"full_name", "first_name", "last_name">>)
    IN  [canonical_id |-> IF primary_id # "" THEN primary_id
                          ELSE Get(entities[1], "id", "merged_entity"),
         canonical_name |-> _choose_canonical_value(all_names),
         all_names |-> all_names,
         all_emails |-> _collect_field_variations(entities, <<"email">>),
         all_phones |-> _collect_field_variations(entities, <<"phone">>),
         all_companies |-> _collect_field_variations(entities, <<"company">>),
         all_titles |-> _collect_field_variations(entities, <<"title">>),
         other_fields |-> _collect_other_fields(entities, OtherExclude),
         source_records |-> entities,
         conflicts |-> _detect_conflicts(entities)]

-----------------------------------------------------------------------------
(* EntityResolutionPipeline.deduplicate, pipeline.py:124-145 *)

\* pipeline.py:124-127 (to_dict keeps the entity's attributes)
MergeAll(groups) == [k \in 1..Len(groups) |-> merge_entities(groups[k], "")]

\* pipeline.py:129-132
MergedIds(groups) ==
    UNION {{groups[k][m].id : m \in 1..Len(groups[k])} : k \in 1..Len(groups)}

\* variant: only the first record of each group is taken out
UniqueContacts_FirstOnly(cs, groups) ==
    SelectSeq(cs, LAMBDA c :
        c.id \notin {groups[k][1].id : k \in 1..Len(groups)})

\* pipeline.py:134
UniqueContacts(cs, groups) ==
    SelectSeq(cs, LAMBDA c : c.id \notin MergedIds(groups))

\* variant: the reduction counts the accepted pairs
Stats_CountsPairs(cs, duplicate_pairs, groups, entities, unique_contacts) ==
    [original_count |-> Len(cs),
     duplicate_pairs_found |-> Len(duplicate_pairs),
     merge_groups |-> Len(groups),
     final_count |-> Len(entities) + Len(unique_contacts),
     reduction |-> Len(duplicate_pairs)]

\* pipeline.py:138-145 (processing_time is left out)
Stats(cs, duplicate_pairs, groups, entities, unique_contacts) ==
    [original_count |-> Len(cs),
     duplicate_pairs_found |-> Len(duplicate_pairs),
     merge_groups |-> Len(groups),
     final_count |-> Len(entities) + Len(unique_contacts),
     reduction |-> Len(cs) - (Len(entities) + Len(unique_contacts))]

-----------------------------------------------------------------------------
(* The answers of the oracle: what response.text may be for a batch *)

\* confidences of an answer: above, at and below the threshold (tenths)
HighConfidence == confidence_threshold + 2
Confidences == {confidence_threshold - 2, confidence_threshold}

JObj(sm, conf, reasoning) ==
    [should_merge |-> sm, confidence |-> conf, reasoning |-> reasoning]

Neg == JObj(JBool(FALSE), JNum(HighConfidence), JStr(1))
Pos(c) == JObj(JBool(TRUE), JNum(c), JStr(1))

JList(items) == [k |-> "list", items |-> items]
Text(shape, json) == [kind |-> "text", shape |-> shape, json |-> json]

\* number of elements of a list a truthy should_merge is read from
RECURSIVE Positives(_)
Positives(items) ==
    IF items = <<>> THEN 0
    ELSE (IF IsObject(Head(items)) /\ "should_merge" \in DOMAIN Head(items)
             /\ Truthy(Head(items).should_merge) THEN 1 ELSE 0)
         + Positives(Tail(items))

\* one well-typed decision per pair, at most budget of them positive
GoodLists(n, budget) ==
    {[k \in 1..n |-> IF k \in P THEN Pos(HighConfidence) ELSE Neg] :
        P \in {Q \in SUBSET (1..n) : Cardinality(Q) <= budget}}

\* one positive answer of another confidence
LowLists(n) ==
    {[k \in 1..n |-> IF k = p THEN Pos(c) ELSE Neg] :
        p \in 1..n, c \in Confidences}

\* a few lists of m well-typed decisions
FewLists(m, budget) ==
    {[k \in 1..m |-> Neg]}
    \cup (IF budget >= 1 /\ m >= 1
          THEN {[k \in 1..m |-> IF k = 1 THEN Pos(HighConfidence) ELSE Neg],
                [k \in 1..m |-> IF k = m THEN Pos(HighConfidence) ELSE Neg]}
          ELSE {})

\* text around the JSON document
FencedShapes ==
    {<<"FJ", "J", "F">>, <<"F", "J", "F">>, <<"P", "FJ", "J", "F", "P">>,
     <<"P", "F", "J", "F", "P">>, <<"FJ", "J">>}
BrokenShapes ==
    {<<"P", "J", "P">>, <<"FJ", "P", "F">>, <<"F", "P", "F", "J">>, <<"P">>, <<>>}

\* list elements that do not match the schema
Defects ==
    {[should_merge |-> JBool(TRUE), reasoning |-> JStr(1)],
     [confidence |-> JNum(HighConfidence), reasoning |-> JStr(1)],
     JObj(JBool(TRUE), JStr(1), JStr(1)),
     JObj(JBool(FALSE), JStr(1), JStr(1)),
     JObj(JBool(TRUE), JNull, JStr(1)),
     JObj(JBool(FALSE), JNull, JStr(1)),
     JObj(JStr(1), JNum(HighConfidence), JStr(1)),
     JObj(JNull, JNum(HighConfidence), JStr(1)),
     JObj(JBool(FALSE), JNum(HighConfidence), JNull),
     JNum(5)}

DefectLists(n) ==
    {[k \in 1..n |-> IF k = p THEN d ELSE Neg] : p \in {1, n}, d \in Defects}

Documents(n, budget) ==
    \* the schema's answer
    {Text(<<"J">>, JList(l)) :
        l \in GoodLists(n, budget)
              \cup (IF budget >= 1 THEN LowLists(n) ELSE {})}
    \* a single object instead of a list
    \cup {Text(<<"J">>, [k |-> "obj", items |-> <<e>>]) :
             e \in {Neg} \cup (IF budget >= 1 THEN {Pos(HighConfidence)} ELSE {})}
    \* prose and fences around the document
    \cup {Text(sh, JList(l)) : sh \in FencedShapes \cup BrokenShapes,
                               l \in FewLists(n, budget)}
    \* text that is no JSON, JSON that is no object or list
    \cup {Text(<<"J">>, [k |-> kd, items |-> <<>>]) : kd \in {"garbage", "scalar"}}
    \* too few or too many decisions
    \cup {Text(<<"J">>, JList(l)) :
             l \in UNION {FewLists(m, budget) : m \in {0, n - 1, n + 1} \ {n, -1}}}
    \* elements of the wrong shape
    \cup (IF budget >= 1
          THEN {Text(<<"J">>, JList(l)) : l \in DefectLists(n)}
          ELSE {})

Responses(n, budget) ==
    {[content |-> c, cost |-> Positives(c.json.items)] : c \in Documents(n, budget)}

\* number of pairs of the batch that starts at start
BatchLen(pairs, start) == Len(Slice(pairs, start, start + batch_size))

-----------------------------------------------------------------------------
Init ==
    /\ contacts \in ContactLists
    /\ evaluation = NoEvaluation
    /\ pc = "start"
    /\ blocks = <<>>
    /\ pairs_to_compare = <<>>
    /\ pair_contacts = <<>>
    /\ proceed = ""
    /\ answer = ""
    /\ batch_start = 0
    /\ attempts = 0
    /\ content = [kind |-> "none"]
    /\ decisions = <<>>
    /\ batch_indices = <<>>
    /\ compared = 0
    /\ duplicates = <<>>
    /\ merges_used = 0
    /\ merge_groups = <<>>
    /\ merged_entities = <<>>
    /\ merge_history = <<>>
    /\ output = <<>>
    /\ stats = [original_count |-> 0]

\* pipeline.py:46-48: the first position whose key cannot be computed, 0 if
\* there is none
FirstRaising(cs) ==
    LET bad == {i \in 1..Len(cs) : LowerRaises(Get(cs[i], "company", "unknown"))}
    IN  IF bad = {} THEN 0 ELSE CHOOSE i \in bad : \A j \in bad : i <= j

\* deduplicate -> find_duplicates up to the confirmation prompt,
\* pipeline.py:34-66; an exception of the blocking loop ends the run with
\* the blocks built so far
GeneratePairs ==
    /\ pc = "start"
    /\ LET stop == FirstRaising(contacts)
           bl == BuildBlocks(IF stop = 0 THEN contacts
                             ELSE SubSeq(contacts, 1, stop - 1), 1, <<>>)
           gp == IF stop = 0 THEN GeneratedPairs(bl) ELSE <<>>
       IN  /\ blocks' = bl
           /\ pairs_to_compare' =
                 [k \in 1..Len(gp) |-> <<gp[k][1].contact, gp[k][2].contact>>]
           /\ pair_contacts' =
                 [k \in 1..Len(gp) |-> <<gp[k][1].idx, gp[k][2].idx>>]
           /\ pc' = IF stop = 0 THEN "confirm" ELSE "raised"
    /\ UNCHANGED <<evaluation, contacts, answer, proceed, batch_start, attempts, content, decisions,
                   batch_indices, compared, duplicates, merges_used,
                   merge_groups, merged_entities, merge_history, output, stats>>

\* variant: every answer but 'n' proceeds
Proceeds_UnlessNo(value) == value # "n"

\* pipeline.py:68: the scan goes on unless proceed != 'y'
Proceeds(value) == value = "y"

\* find_duplicates: input() returns the line the operator typed,
\* pipeline.py:67-72; return [] at line 70 and a scan of no pairs both lead
\* to the code after the scan
Confirm(line) ==
    /\ pc = "confirm"
    /\ answer' = line
    /\ proceed' = Lower(Strip(line))
    /\ pc' = IF Proceeds(Lower(Strip(line))) /\ Len(pairs_to_compare) > 0
             THEN "scan" ELSE "tail"
    /\ UNCHANGED <<evaluation, contacts, blocks, pairs_to_compare, pair_contacts,
                   batch_start, attempts, content, decisions, batch_indices,
                   compared, duplicates, merges_used, merge_groups,
                   merged_entities, merge_history, output, stats>>

\* find_duplicates, pipeline.py:74-109, once should_merge has got cont out of
\* _call_llm for the batch at batch_start, and the step to the next batch
FinishBatch(cont, cost) ==
    LET batch_pairs == Slice(pairs_to_compare, batch_start, batch_start + batch_size)
        indices == Slice(pair_contacts, batch_start, batch_start + batch_size)
        decs == should_merge(Len(batch_pairs), cont)
        st == ApplyDecisions(Zip(decs, indices), contacts,
                             [compared |-> compared, duplicates |-> duplicates,
                              raised |-> FALSE])
    IN  /\ content' = cont
        /\ decisions' = decs
        /\ batch_indices' = indices
        /\ compared' = st.compared
        /\ duplicates' = st.duplicates
        /\ merges_used' = merges_used + cost
        /\ attempts' = 0
        /\ IF st.raised
           THEN pc' = "raised" /\ batch_start' = batch_start
           ELSE IF batch_start + batch_size < Len(pairs_to_compare)
                THEN pc' = "scan" /\ batch_start' = batch_start + batch_size
                ELSE pc' = "tail" /\ batch_start' = batch_start
        /\ UNCHANGED <<evaluation, contacts, blocks, pairs_to_compare, pair_contacts,
                       answer, proceed, merge_groups, merged_entities, merge_history,
                       output, stats>>

\* variant: one attempt more before giving up
StopAfterAttempt_OneMore(attempt_number) == attempt_number > MaxAttempts

\* entity_resolver.py:137 stop_after_attempt(3): no attempt follows the
\* attempt with this number
StopAfterAttempt(attempt_number) == attempt_number >= MaxAttempts

\* _call_llm, entity_resolver.py:135-148: an attempt raises. Before the
\* MaxAttempts-th failure tenacity waits and tries again; the MaxAttempts-th
\* failure raises RetryError into should_merge's except clause
CallFails ==
    /\ pc = "scan"
    /\ IF ~StopAfterAttempt(attempts + 1)
       THEN /\ attempts' = attempts + 1
            /\ UNCHANGED <<pc, evaluation, contacts, blocks, pairs_to_compare,
                           pair_contacts, answer, proceed, batch_start, content,
                           decisions, batch_indices, compared, duplicates,
                           merges_used, merge_groups, merged_entities,
                           merge_history, output, stats>>
       ELSE FinishBatch([kind |-> "retry_error"], 0)

\* _call_llm: an attempt returns response.text
CallReturns ==
    /\ pc = "scan"
    /\ \E r \in Responses(BatchLen(pairs_to_compare, batch_start),
                          MaxMerges - merges_used) :
           FinishBatch(r.content, r.cost)

\* deduplicate after find_duplicates, pipeline.py:122-147
FinishDeduplicate ==
    /\ pc = "tail"
    /\ LET groups == _build_merge_groups(duplicates)
           entities == MergeAll(groups)
           unique_contacts == UniqueContacts(contacts, groups)
       IN  /\ merge_groups' = groups
           /\ merged_entities' = entities
           /\ merge_history' = merge_history \o entities
           /\ output' = entities \o unique_contacts
           /\ stats' = Stats(contacts, duplicates, groups, entities,
                             unique_contacts)
    /\ pc' = "done"
    /\ UNCHANGED <<evaluation, contacts, blocks, pairs_to_compare, pair_contacts, answer, proceed,
                   batch_start, attempts, content, decisions, batch_indices,
                   compared, duplicates, merges_used>>

Next ==
    \/ GeneratePairs
    \/ \E line \in {"y", "n"} : Confirm(line)
    \/ CallFails
    \/ CallReturns
    \/ FinishDeduplicate

Spec == Init /\ [][Next]_vars
-----------------------------------------------------------------------------
(* Blocking on records whose company may be absent, None or empty *)

\* marks a record that has no "company" key
NoKey == "<no key>"

\* 1..MaxContacts records with unique ids; company: a name in either letter
\* case, the empty string, None, or no key at all
BlockInputs ==
    UNION {{[i \in 1..n |->
                IF f[i] = NoKey THEN [id |-> RecordIds[i]]
                ELSE [id |-> RecordIds[i], company |-> f[i]]] :
              f \in [1..n -> Companies \cup {NoKey, None, ""}]} :
           n \in 1..MaxContacts}

InitBlock ==
    /\ contacts \in BlockInputs
    /\ evaluation = NoEvaluation
    /\ pc = "start"
    /\ blocks = <<>>
    /\ pairs_to_compare = <<>>
    /\ pair_contacts = <<>>
    /\ proceed = ""
    /\ answer = ""
    /\ batch_start = 0
    /\ attempts = 0
    /\ content = [kind |-> "none"]
    /\ decisions = <<>>
    /\ batch_indices = <<>>
    /\ compared = 0
    /\ duplicates = <<>>
    /\ merges_used = 0
    /\ merge_groups = <<>>
    /\ merged_entities = <<>>
    /\ merge_history = <<>>
    /\ output = <<>>
    /\ stats = [original_count |-> 0]

SpecBlock == InitBlock /\ [][GeneratePairs]_vars

-----------------------------------------------------------------------------
(* _build_merge_groups on any sequence of accepted pairs *)

ClusterIds == {RecordIds[i] : i \in 1..NumIds}

\* the sequences of at most MaxPairs pairs (a, b) of different ids, in any
\* order and either orientation; find_duplicates compares two records at
\* most once (pipeline.py:56-62), so no two pairs join the same two ids
PairSeqs ==
    UNION {{s \in [1..n -> {p \in ClusterIds \X ClusterIds : p[1] # p[2]}] :
               \A i, j \in 1..n :
                   i < j => {s[i][1], s[i][2]} # {s[j][1], s[j][2]}} :
           n \in 0..MaxPairs}

\* duplicate_pairs: (record a, record b, confidence)
DupList(ps) ==
    [k \in 1..Len(ps) |->
        <<[id |-> ps[k][1]], [id |-> ps[k][2]], JNum(HighConfidence)>>]

InitCluster ==
    /\ pc = "cluster_input"
    /\ duplicates \in {DupList(ps) : ps \in PairSeqs}
    /\ contacts = <<>>
    /\ evaluation = NoEvaluation
    /\ blocks = <<>>
    /\ pairs_to_compare = <<>>
    /\ pair_contacts = <<>>
    /\ proceed = ""
    /\ answer = ""
    /\ batch_start = 0
    /\ attempts = 0
    /\ content = [kind |-> "none"]
    /\ decisions = <<>>
    /\ batch_indices = <<>>
    /\ compared = 0
    /\ merges_used = 0
    /\ merge_groups = <<>>
    /\ merged_entities = <<>>
    /\ merge_history = <<>>
    /\ output = <<>>
    /\ stats = [original_count |-> 0]

\* the call _build_merge_groups(pairs)
Regroup(pairs) ==
    /\ duplicates' = pairs
    /\ merge_groups' = _build_merge_groups(pairs)
    /\ pc' = "clustered"
    /\ UNCHANGED <<evaluation, contacts, blocks, pairs_to_compare, pair_contacts, answer, proceed,
                   batch_start, attempts, content, decisions, batch_indices,
                   compared, merges_used, merged_entities, merge_history,
                   output, stats>>

BuildGroups ==
    /\ pc = "cluster_input"
    /\ Regroup(duplicates)

\* the same pairs, two neighbours of the sequence exchanged
SwapPairs(k) ==
    /\ pc = "clustered"
    /\ k + 1 <= Len(duplicates)
    /\ Regroup([duplicates EXCEPT ![k] = duplicates[k + 1],
                                  ![k + 1] = duplicates[k]])

\* the same pairs, one of them in the other orientation
FlipPair(k) ==
    /\ pc = "clustered"
    /\ k <= Len(duplicates)
    /\ Regroup([duplicates EXCEPT ![k] = <<@[2], @[1], @[3]>>])

NextCluster ==
    \/ BuildGroups
    \/ \E k \in 1..MaxPairs : SwapPairs(k)
    \/ \E k \in 1..MaxPairs : FlipPair(k)

SpecCluster == InitCluster /\ [][NextCluster]_vars

-----------------------------------------------------------------------------
(* merge_entities on any non-empty group *)

\* a record with the keys whose value is given ("" = key absent)
MergeRecord(id, full_name, company, source) ==
    LET all == [id |-> id, full_name |-> full_name, company |-> company,
                source |-> source]
    IN  [k \in {f \in DOMAIN all : all[f] # ""} |-> all[k]]

MergeRecords ==
    {MergeRecord(id, n, c, src) :
        id \in {RecordIds[1], RecordIds[2]},
        n \in {"", "S. Chen", "Sarah Chen"},
        c \in {"", "Acme"},
        src \in {"", "email"}}

\* the groups merge_entities is called with: 1..MaxGroup records
GroupInputs == UNION {[1..n -> MergeRecords] : n \in 1..MaxGroup}

InitMerge ==
    /\ pc = "merge_input"
    /\ merge_groups \in {<<g>> : g \in GroupInputs}
    /\ duplicates = <<>>
    /\ contacts = <<>>
    /\ evaluation = NoEvaluation
    /\ blocks = <<>>
    /\ pairs_to_compare = <<>>
    /\ pair_contacts = <<>>
    /\ proceed = ""
    /\ answer = ""
    /\ batch_start = 0
    /\ attempts = 0
    /\ content = [kind |-> "none"]
    /\ decisions = <<>>
    /\ batch_indices = <<>>
    /\ compared = 0
    /\ merges_used = 0
    /\ merged_entities = <<>>
    /\ merge_history = <<>>
    /\ output = <<>>
    /\ stats = [original_count |-> 0]

\* the call merge_entities(group, primary_id), merge_strategy.py:59-104
MergeCall(primary_id) ==
    /\ pc = "merge_input"
    /\ LET merged == merge_entities(merge_groups[1], primary_id)
       IN  /\ merged_entities' = <<merged>>
           /\ merge_history' = Append(merge_history, merged)
    /\ pc' = "merged"
    /\ UNCHANGED <<evaluation, contacts, blocks, pairs_to_compare, pair_contacts, answer, proceed,
                   batch_start, attempts, content, decisions, batch_indices,
                   compared, duplicates, merges_used, merge_groups, output,
                   stats>>

\* variant: an empty list is merged like any other
MergeRaises_Never(entities) == FALSE

\* merge_strategy.py:68-69: raise ValueError
MergeRaises(entities) == entities = <<>>

\* merge_strategy.py:71: entities[0] of an empty list raises IndexError
IndexRaises(entities, primary_id) == primary_id = "" /\ entities = <<>>

\* the call merge_entities([], primary_id), before or after a merge
MergeEmptyCall(primary_id) ==
    /\ pc \in {"merge_input", "merged"}
    /\ IF MergeRaises(<<>>) \/ IndexRaises(<<>>, primary_id)
       THEN /\ pc' = "raised"
            /\ UNCHANGED <<merged_entities, merge_history>>
       ELSE LET merged == merge_entities(<<>>, primary_id)
            IN  /\ merged_entities' = <<merged>>
                /\ merge_history' = Append(merge_history, merged)
                /\ pc' = "merged"
    /\ UNCHANGED <<evaluation, contacts, blocks, pairs_to_compare, pair_contacts, answer, proceed,
                   batch_start, attempts, content, decisions, batch_indices,
                   compared, duplicates, merges_used, merge_groups, output,
                   stats>>

NextMerge ==
    \/ \E primary_id \in {"", "p1"} : MergeCall(primary_id)
    \/ \E primary_id \in {"", "p1"} : MergeEmptyCall(primary_id)

SpecMerge == InitMerge /\ [][NextMerge]_vars

-----------------------------------------------------------------------------
(* merge_entities on groups of records with unique ids and varied fields *)

\* the fields of a record but its id: full_name absent, empty, abbreviated
\* or full; linkedin absent or one of two values; source absent or given
Profile(full_name, linkedin, source) ==
    LET all == [full_name |-> full_name, linkedin |-> linkedin,
                source |-> source]
    IN  [k \in {f \in DOMAIN all : all[f] # NoKey} |-> all[k]]

FieldProfiles ==
    {Profile(n, l, src) : n \in {NoKey, "", "S. Chen", "Sarah Chen"},
                          l \in {NoKey, "x", "y"},
                          src \in {NoKey, "email"}}
    \cup {[first_name |-> "Sarah", last_name |-> "Chen"],
          [full_name |-> "Chen", first_name |-> "Sarah", source |-> "card"],
          [company |-> "Acme", location |-> "x"],
          [company |-> "ACME", linkedin |-> "", location |-> "NY"],
          [full_name |-> None, linkedin |-> "x", email |-> "x"]}

\* the record at position m of a group: the profile and a unique id
WithId(profile, m) ==
    [k \in DOMAIN profile \cup {"id"} |->
        IF k = "id" THEN RecordIds[m] ELSE profile[k]]

FieldGroups ==
    UNION {{[m \in 1..n |-> WithId(f[m], m)] : f \in [1..n -> FieldProfiles]} :
              n \in 1..MaxGroup}

InitFields ==
    /\ pc = "merge_input"
    /\ merge_groups \in {<<g>> : g \in FieldGroups}
    /\ duplicates = <<>>
    /\ contacts = <<>>
    /\ evaluation = NoEvaluation
    /\ blocks = <<>>
    /\ pairs_to_compare = <<>>
    /\ pair_contacts = <<>>
    /\ proceed = ""
    /\ answer = ""
    /\ batch_start = 0
    /\ attempts = 0
    /\ content = [kind |-> "none"]
    /\ decisions = <<>>
    /\ batch_indices = <<>>
    /\ compared = 0
    /\ merges_used = 0
    /\ merged_entities = <<>>
    /\ merge_history = <<>>
    /\ output = <<>>
    /\ stats = [original_count |-> 0]

NextFields == \E primary_id \in {"", "p1"} : MergeCall(primary_id)

SpecFields == InitFields /\ [][NextFields]_vars

-----------------------------------------------------------------------------
(* Properties of the pipeline, checked under Spec *)

IsEntity(o) == "source_records" \in DOMAIN o

InputIds == {contacts[i].id : i \in 1..Len(contacts)}

\* places of the output where id is a source record of a merged entity
EntityPlaces(id) ==
    {p \in (1..Len(output)) \X (1..Len(contacts)) :
        /\ IsEntity(output[p[1]])
        /\ p[2] <= Len(output[p[1]].source_records)
        /\ output[p[1]].source_records[p[2]].id = id}

\* places of the output where id is an untouched record
SingletonPlaces(id) ==
    {q \in 1..Len(output) : ~IsEntity(output[q]) /\ output[q].id = id}

\* places of the merge groups where id is a member
GroupPlaces(id) ==
    {p \in (1..Len(merge_groups)) \X (1..Len(contacts)) :
        /\ p[2] <= Len(merge_groups[p[1]])
        /\ merge_groups[p[1]][p[2]].id = id}

\* C1: the output of deduplicate partitions the input: every input id is a
\* source record of exactly one merged entity or exactly one untouched
\* record of the output, never both, in at most one merge group, and the
\* output holds nothing else.
C1_OutputPartitionsInput ==
    pc = "done" =>
        /\ \A id \in InputIds :
              /\ Cardinality(EntityPlaces(id)) + Cardinality(SingletonPlaces(id)) = 1
              /\ Cardinality(GroupPlaces(id)) <= 1
              /\ Cardinality(GroupPlaces(id)) = Cardinality(EntityPlaces(id))
        /\ \A q \in 1..Len(output) :
              IF IsEntity(output[q])
              THEN \A m \in 1..Len(output[q].source_records) :
                      output[q].source_records[m] \in Range(contacts)
              ELSE output[q] \in Range(contacts)

\* a run that leaves two merged entities and an untouched record
C1_Witness ==
    /\ pc = "done"
    /\ Len(merged_entities) = 2
    /\ \E q \in 1..Len(output) : ~IsEntity(output[q])

\* C2: reduction = original_count - final_count, final_count = number of
\* merged entities + number of singletons = length of the output, and
\* reduction = sum over the merge groups of (group size - 1).
C2_ReductionConservation ==
    pc = "done" =>
        /\ stats.original_count = Len(contacts)
        /\ stats.reduction = stats.original_count - stats.final_count
        /\ stats.final_count = Len(output)
        /\ stats.final_count =
              Len(merged_entities)
              + Cardinality({q \in 1..Len(output) : ~IsEntity(output[q])})
        /\ stats.reduction =
              SumSeq([k \in 1..Len(merge_groups) |-> Len(merge_groups[k]) - 1])

\* three accepted pairs that form a cycle: the reduction is below the pairs
C2_Witness ==
    /\ pc = "done"
    /\ stats.duplicate_pairs_found = 3
    /\ stats.reduction = 2

\* the pairs of the last batch, none of which is in duplicates
NoneOfBatchAccepted ==
    \A k \in 1..Len(batch_indices), d \in 1..Len(duplicates) :
        ~(/\ duplicates[d][1] = contacts[batch_indices[k][1] + 1]
          /\ duplicates[d][2] = contacts[batch_indices[k][2] + 1])

\* one default error decision per pair of the last batch
BatchDegraded ==
    /\ Len(decisions) = Len(batch_indices)
    /\ \A k \in 1..Len(decisions) :
          /\ decisions[k].should_merge = JBool(FALSE)
          /\ decisions[k].confidence = JNum(0)

\* C3: the adapter's result for a batch of n >= 1 pairs holds exactly n
\* decisions, the k-th for the k-th pair, whatever the oracle answers.
C3_OneDecisionPerPair ==
    content.kind # "none" =>
        /\ Len(batch_indices) >= 1
        /\ Len(decisions) = Len(batch_indices)

\* C4: when every attempt of the call fails, the adapter returns one decision
\* per pair with should_merge false, confidence 0.0 and the error text;
\* find_duplicates does not raise and accepts none of the pairs.
C4_CallFailureDegrades ==
    content.kind = "retry_error" =>
        /\ Len(batch_indices) >= 1
        /\ BatchDegraded
        /\ \A k \in 1..Len(decisions) : decisions[k].reasoning = JStr(2)
        /\ pc # "raised"
        /\ NoneOfBatchAccepted

\* the call failed for a batch of three pairs
C4_Witness ==
    /\ content.kind = "retry_error"
    /\ Len(batch_indices) = 3
    /\ Len(decisions) = 3

\* an element of the answer that matches the schema
MatchesSchema(e) ==
    /\ IsObject(e)
    /\ {"should_merge", "confidence", "reasoning"} \subseteq DOMAIN e
    /\ e.should_merge.t = "bool"
    /\ e.confidence.t = "num"
    /\ e.reasoning.t = "str"

\* the answer is no JSON after fence-stripping, or an element of it does not
\* match the schema
Malformed(cont) ==
    /\ cont.kind = "text"
    /\ \/ ~JsonLoads(StripFences(cont.shape), cont.json).ok
       \/ \E k \in 1..Len(ResultList(cont.json)) :
             ~MatchesSchema(ResultList(cont.json)[k])

\* C5: a malformed answer (no JSON after fence-stripping, or a schema
\* mismatch) gives every pair of the batch the default error decision,
\* find_duplicates does not raise and accepts no pair of the batch.
C5_MalformedAnswerDegrades ==
    Malformed(content) =>
        /\ BatchDegraded
        /\ pc # "raised"
        /\ NoneOfBatchAccepted

\* the batch of the step is over: the next batch, or the end of the scan
BatchAdvanced ==
    \/ pc' \in {"tail", "raised"}
    \/ pc' = "scan" /\ batch_start' = batch_start + batch_size

\* C6: at most MaxAttempts = 3 attempts per batch: a failed attempt is
\* followed by another only while fewer than 3 were made, the answer of the
\* first successful attempt is the one parsed, and the 3rd consecutive
\* failure ends the batch with error decisions.
C6_AtMostThreeAttempts ==
    [][pc = "scan" =>
        \/ /\ attempts' = attempts + 1
           /\ attempts' < 3
           /\ pc' = "scan"
           /\ UNCHANGED <<batch_start, content, decisions, compared, duplicates>>
        \/ /\ content'.kind = "text"
           /\ attempts < 3
           /\ attempts' = 0
           /\ decisions' = should_merge(Len(batch_indices'), content')
           /\ BatchAdvanced
        \/ /\ content'.kind = "retry_error"
           /\ attempts = 2
           /\ attempts' = 0
           /\ decisions' = [k \in 1..Len(batch_indices') |-> ErrorDecision]
           /\ BatchAdvanced]_vars

\* the second batch's call has failed twice
C6_Witness ==
    /\ pc = "scan"
    /\ batch_start > 0
    /\ attempts = 2

\* the block (its place in blocks) that holds the record at index idx
BlocksOf(idx) ==
    {b \in 1..Len(blocks) :
        \E m \in 1..Len(blocks[b].members) : blocks[b].members[m].idx = idx}

\* C10: blocking partitions the input: every record is in exactly one block
\* (once), and the two records of every pair to compare are of one block.
C10_BlockingPartitions ==
    pc # "start" =>
        /\ \A i \in 1..Len(contacts) :
              Cardinality({p \in (1..Len(blocks)) \X (1..Len(contacts)) :
                              /\ p[2] <= Len(blocks[p[1]].members)
                              /\ blocks[p[1]].members[p[2]].idx = i - 1
                              /\ blocks[p[1]].members[p[2]].contact = contacts[i]})
              = 1
        /\ SumSeq([b \in 1..Len(blocks) |-> Len(blocks[b].members)]) = Len(contacts)
        /\ Len(pairs_to_compare) = Len(pair_contacts)
        /\ \A k \in 1..Len(pair_contacts) :
              /\ pair_contacts[k][1] # pair_contacts[k][2]
              /\ BlocksOf(pair_contacts[k][1]) = BlocksOf(pair_contacts[k][2])
              /\ pairs_to_compare[k] = <<contacts[pair_contacts[k][1] + 1],
                                         contacts[pair_contacts[k][2] + 1]>>
        /\ \A k \in 1..Len(batch_indices) : batch_indices[k] \in Range(pair_contacts)

\* two blocks with a pair each
C10_Witness ==
    /\ pc = "confirm"
    /\ Len(blocks) = 2
    /\ \A b \in 1..Len(blocks) : Len(blocks[b].members) = 2
    /\ Len(pair_contacts) = 2

-----------------------------------------------------------------------------
(* Properties of merge_entities, checked under SpecMerge *)

\* C7: the source_records of the entity merge_entities returns for a
\* non-empty group are exactly the records of the group: each once, in the
\* group's order, with all fields and values unchanged.
C7_SourceRecordsAreTheGroup ==
    pc = "merged" =>
        /\ Len(merge_groups[1]) >= 1
        /\ Len(merged_entities[1].source_records) = Len(merge_groups[1])
        /\ \A m \in 1..Len(merge_groups[1]) :
              /\ DOMAIN merged_entities[1].source_records[m]
                    = DOMAIN merge_groups[1][m]
              /\ merged_entities[1].source_records[m] = merge_groups[1][m]

\* a group of two records of the same id that differ in a field
C7_Witness ==
    /\ pc = "merged"
    /\ Len(merge_groups[1]) = 2
    /\ merge_groups[1][1].id = merge_groups[1][2].id
    /\ merge_groups[1][1] # merge_groups[1][2]
    /\ Len(merged_entities[1].source_records) = 2

-----------------------------------------------------------------------------
(* Properties of _build_merge_groups, checked under SpecCluster *)

GroupIds(g) == {g[m].id : m \in 1..Len(g)}

\* the partition of ids the groups stand for
Partition(groups) == {GroupIds(groups[k]) : k \in 1..Len(groups)}

Ends(pair) == {pair[1].id, pair[2].id}

\* the ids that occur in at least one pair
Nodes(pairs) == UNION {Ends(pairs[k]) : k \in 1..Len(pairs)}

\* the ids joined to an id of S by a path of accepted pairs
RECURSIVE Reachable(_, _)
Reachable(S, pairs) ==
    LET T == S \cup UNION {Ends(pairs[k]) :
                              k \in {q \in 1..Len(pairs) : Ends(pairs[q]) \cap S # {}}}
    IN  IF T = S THEN S ELSE Reachable(T, pairs)

\* the connected components of the graph of the accepted pairs
ConnectedComponents(pairs) == {Reachable({x}, pairs) : x \in Nodes(pairs)}

\* union-find over the same pairs: parent links, find, union
RECURSIVE Find(_, _)
Find(parent, x) == IF parent[x] = x THEN x ELSE Find(parent, parent[x])

RECURSIVE UnionAll(_, _)
UnionAll(pairs, parent) ==
    IF pairs = <<>> THEN parent
    ELSE LET ra == Find(parent, Head(pairs)[1].id)
             rb == Find(parent, Head(pairs)[2].id)
         IN  UnionAll(Tail(pairs), [parent EXCEPT ![ra] = rb])

UnionFindPartition(pairs) ==
    LET parent == UnionAll(pairs, [x \in Nodes(pairs) |-> x])
    IN  {{y \in Nodes(pairs) : Find(parent, y) = Find(parent, x)} :
            x \in Nodes(pairs)}

\* C8: clustering is transitive and independent of the order and the
\* orientation of the accepted pairs: pairs that share an id put all their
\* ids in one group, and exchanging two neighbours of the sequence or
\* turning a pair around (the steps every reordering is made of) leaves the
\* partition of ids into groups unchanged.
C8_ClusteringOrderIndependent ==
    /\ [][(pc = "clustered" /\ pc' = "clustered")
             => Partition(merge_groups') = Partition(merge_groups)]_vars
    /\ [](pc = "clustered" =>
             \A p, q \in 1..Len(duplicates) :
                 Ends(duplicates[p]) \cap Ends(duplicates[q]) # {}
                     => \E k \in 1..Len(merge_groups) :
                           Ends(duplicates[p]) \cup Ends(duplicates[q])
                               \subseteq GroupIds(merge_groups[k]))

\* (A, B) and (C, B) accepted, in orientations that differ: one group of three
C8_Witness ==
    /\ pc = "clustered"
    /\ Len(duplicates) = 2
    /\ duplicates[1][2].id = duplicates[2][2].id
    /\ duplicates[1][1].id # duplicates[2][1].id
    /\ Len(merge_groups) = 1
    /\ Len(merge_groups[1]) = 3

\* C9: the groups are exactly the connected components of the graph of the
\* accepted pairs: every id of a pair is in exactly one group, two ids share
\* a group iff a path of accepted pairs joins them, and a union-find over
\* the same pairs yields the same membership.
C9_GroupsAreConnectedComponents ==
    pc = "clustered" =>
        /\ Partition(merge_groups) = ConnectedComponents(duplicates)
        /\ Partition(merge_groups) = UnionFindPartition(duplicates)
        /\ SumSeq([k \in 1..Len(merge_groups) |-> Len(merge_groups[k])])
              = Cardinality(Nodes(duplicates))
        /\ \A k \in 1..Len(merge_groups) :
              Cardinality(GroupIds(merge_groups[k])) = Len(merge_groups[k])

\* two pairs without a common id: two components
C9_Witness ==
    /\ pc = "clustered"
    /\ Len(duplicates) = 2
    /\ Len(merge_groups) = 2
    /\ Cardinality(Nodes(duplicates)) = 4

-----------------------------------------------------------------------------
(* Properties of blocking, checked under SpecBlock *)

\* the record has no company: no key, or no value under the key
CompanyAbsent(contact) ==
    \/ "company" \notin DOMAIN contact
    \/ contact.company \in {None, ""}

\* the key of the block (of the finished blocking) that holds position i
KeyOfBlockOf(i) ==
    {blocks[b].key : b \in BlocksOf(i - 1)}

\* C11: the block key of a record is its company case-folded, so records
\* whose company differs only in letter case share a block; a record without
\* company (no key, or no value) is in the one sentinel block "unknown", and
\* blocking completes for every such input.
C11_BlockKeyCaseFoldedOrSentinel ==
    pc # "start" =>
        /\ pc # "raised"
        /\ \A i \in 1..Len(contacts) :
              KeyOfBlockOf(i) =
                  {IF CompanyAbsent(contacts[i]) THEN "unknown"
                   ELSE Lower(contacts[i].company)}

-----------------------------------------------------------------------------
(* Properties of pair generation and acceptance, checked under Spec *)

\* the generated pairs (places in pair_contacts) that join positions a and b
PairPlaces(a, b) ==
    {k \in 1..Len(pair_contacts) :
        {pair_contacts[k][1], pair_contacts[k][2]} = {a, b}}

\* C12: within each block every unordered pair of distinct records is
\* generated exactly once, as (earlier, later) of the block; no record is
\* paired with itself, no unordered pair is generated twice, and the number
\* of pairs is the sum over the blocks of size * (size - 1) / 2.
C12_AllPairsOfABlockOnce ==
    pc # "start" =>
        /\ \A b \in 1..Len(blocks) :
              \A m1, m2 \in 1..Len(blocks[b].members) :
                  m1 < m2 =>
                      /\ Cardinality(PairPlaces(blocks[b].members[m1].idx,
                                                blocks[b].members[m2].idx)) = 1
                      /\ <<blocks[b].members[m1].idx, blocks[b].members[m2].idx>>
                            \in Range(pair_contacts)
        /\ \A k \in 1..Len(pair_contacts) :
              pair_contacts[k][1] # pair_contacts[k][2]
        /\ \A k1, k2 \in 1..Len(pair_contacts) :
              k1 # k2 =>
                  {pair_contacts[k1][1], pair_contacts[k1][2]}
                      # {pair_contacts[k2][1], pair_contacts[k2][2]}
        /\ 2 * Len(pair_contacts) =
              SumSeq([b \in 1..Len(blocks) |->
                         Len(blocks[b].members) * (Len(blocks[b].members) - 1)])
        /\ Len(pairs_to_compare) = Len(pair_contacts)

\* a block of three records and a block of one: three pairs
C12_Witness ==
    /\ pc = "confirm"
    /\ Len(blocks) = 2
    /\ \E b \in 1..2 : Len(blocks[b].members) = 3
    /\ Len(pair_contacts) = 3

\* a decision of MatchDecision's declared types: bool, float, str
TypedDecision(d) ==
    /\ d.should_merge.t = "bool"
    /\ d.confidence.t = "num"
    /\ d.reasoning.t = "str"

\* the entries find_duplicates is to append for decisions decs of the pairs
\* at the index pairs idxs, in order; a pair beyond the decisions has none
RECURSIVE ExpectedAccepted(_, _)
ExpectedAccepted(decs, idxs) ==
    IF decs = <<>> \/ idxs = <<>> THEN <<>>
    ELSE (IF /\ Head(decs).should_merge = JBool(TRUE)
             /\ Head(decs).confidence.v >= confidence_threshold
          THEN <<<<contacts[Head(idxs)[1] + 1], contacts[Head(idxs)[2] + 1],
                   Head(decs).confidence>>>>
          ELSE <<>>)
         \o ExpectedAccepted(Tail(decs), Tail(idxs))

\* C13: a generated pair is in the list find_duplicates returns iff its
\* decision has should_merge true and confidence >= confidence_threshold
\* (equality is accepted), with the decision's confidence stored; stated per
\* batch, each pair being of one batch: a batch whose decisions have the
\* declared types of MatchDecision appends exactly the entries of its
\* accepting decisions, in order, and no other step changes the list.
C13_AcceptedIffAtOrAboveThreshold ==
    [][IF pc = "scan" /\ BatchAdvanced
       THEN (\A k \in 1..Len(decisions') : TypedDecision(decisions'[k]))
               => /\ pc' # "raised"
                  /\ duplicates' =
                        duplicates \o ExpectedAccepted(decisions', batch_indices')
       ELSE duplicates' = duplicates]_vars

\* a pair accepted with a confidence equal to the threshold
C13_Witness ==
    /\ Len(duplicates) = 1
    /\ duplicates[1][3] = JNum(confidence_threshold)
    /\ \E k \in 1..Len(decisions) :
          /\ decisions[k].should_merge = JBool(TRUE)
          /\ decisions[k].confidence = JNum(confidence_threshold)
    /\ Len(decisions) >= 2

-----------------------------------------------------------------------------
(* Properties of the merged entity's views, checked under SpecFields *)

\* the group and the entity of the call
Group == merge_groups[1]
Entity == merged_entities[1]

\* a record holds a non-empty value under the field
HasValue(record, field) ==
    field \in DOMAIN record /\ record[field] \notin {"", None}

\* value, source label and record id of a record's field
Tagged(record, field) ==
    [value |-> record[field],
     source |-> IF "source" \in DOMAIN record THEN record.source ELSE "unknown",
     record_id |-> record.id]

\* the tagged non-empty values of the fields, record by record in group
\* order, within a record in the order of fields
Occurrences(group, fields) ==
    Flatten([m \in 1..Len(group) |->
        Flatten([j \in 1..Len(fields) |->
            IF HasValue(group[m], fields[j])
            THEN <<Tagged(group[m], fields[j])>> ELSE <<>>])])

\* the entries whose value no earlier entry has
FirstOccurrences(entries) ==
    LET first == {k \in 1..Len(entries) :
                     \A j \in 1..(k - 1) : entries[j].value # entries[k].value}
        RECURSIVE Pick(_)
        Pick(k) == IF k > Len(entries) THEN <<>>
                   ELSE (IF k \in first THEN <<entries[k]>> ELSE <<>>) \o Pick(k + 1)
    IN  Pick(1)

\* value, source and record id of the entries of a view
Untagged(view) ==
    [k \in 1..Len(view) |->
        [value |-> view[k].value, source |-> view[k].source,
         record_id |-> view[k].record_id]]

\* C14: each of the five buckets holds every non-empty value of its fields
\* across the group in group order, the first occurrence of each exact value
\* only, tagged with the source label and the id of the record of that
\* first occurrence.
C14_BucketsKeepFirstOccurrences ==
    pc = "merged" =>
        /\ Untagged(Entity.all_names) =
              FirstOccurrences(Occurrences(Group,
                                  <<"full_name", "first_name", "last_name">>))
        /\ Untagged(Entity.all_emails) =
              FirstOccurrences(Occurrences(Group, <<"email">>))
        /\ Untagged(Entity.all_phones) =
              FirstOccurrences(Occurrences(Group, <<"phone">>))
        /\ Untagged(Entity.all_companies) =
              FirstOccurrences(Occurrences(Group, <<"company">>))
        /\ Untagged(Entity.all_titles) =
              FirstOccurrences(Occurrences(Group, <<"title">>))

\* two records with the same name and different source labels: one entry,
\* tagged with the first record
C14_Witness ==
    /\ pc = "merged"
    /\ Len(Group) = 2
    /\ HasValue(Group[1], "full_name")
    /\ HasValue(Group[2], "full_name")
    /\ Group[1].full_name = Group[2].full_name
    /\ "source" \in DOMAIN Group[1]
    /\ "source" \notin DOMAIN Group[2]
    /\ Len(Entity.all_names) = 1
    /\ Entity.all_names[1].record_id = Group[1].id

\* the fields of the group's records outside the five buckets, id and source
OtherFieldsOf(group) ==
    (UNION {DOMAIN group[m] : m \in 1..Len(group)}) \ OtherExclude

\* the entries of other_fields[field], none if the field is no key of it
OtherEntries(entity, field) ==
    IF KeyIndex(entity.other_fields, field, 1) = 0 THEN <<>>
    ELSE Lookup(entity.other_fields, field)

\* C15: every field outside the five buckets, id and source is collected
\* under other_fields[field] with the rule of the buckets: values in group
\* order, each exact value once (first occurrence wins), tagged with source
\* and record id; a value shared by two records appears once.
C15_OtherFieldsKeepFirstOccurrences ==
    pc = "merged" =>
        \A field \in OtherFieldsOf(Group) :
            Untagged(OtherEntries(Entity, field)) =
                FirstOccurrences(Occurrences(Group, <<field>>))

\* places of all_names whose value has no period character
FullNamePlaces(entity) ==
    {k \in 1..Len(entity.all_names) : ~HasPeriod(entity.all_names[k].value)}

\* C16: canonical_name is the first collected name variant without a period
\* character; the first collected variant if all have one; "Unknown" if no
\* name variant was collected.
C16_CanonicalNamePolicy ==
    pc = "merged" =>
        Entity.canonical_name =
            IF Len(Entity.all_names) = 0 THEN "Unknown"
            ELSE IF FullNamePlaces(Entity) = {} THEN Entity.all_names[1].value
            ELSE Entity.all_names[CHOOSE k \in FullNamePlaces(Entity) :
                                     \A j \in FullNamePlaces(Entity) : k <= j].value

\* the abbreviated name was collected first, the full name is canonical
C16_Witness ==
    /\ pc = "merged"
    /\ Len(Entity.all_names) = 2
    /\ HasPeriod(Entity.all_names[1].value)
    /\ ~HasPeriod(Entity.all_names[2].value)
    /\ Entity.canonical_name = Entity.all_names[2].value

\* the distinct non-empty values the records of the group hold for a field
DistinctValues(group, field) ==
    {group[m][field] : m \in {q \in 1..Len(group) : HasValue(group[q], field)}}

\* places of conflicts that are about the field
ConflictPlaces(entity, field) ==
    {k \in 1..Len(entity.conflicts) : entity.conflicts[k].field = field}

\* C17: for every field other than id and source, conflicts has exactly one
\* entry for it if the group holds more than one distinct non-empty value
\* for it, none otherwise; the entry's values are that set of values; bucket
\* fields and other fields alike.
C17_ConflictsAreFieldsWithSeveralValues ==
    pc = "merged" =>
        /\ \A field \in Range(FieldOrder) \ {"id", "source"} :
              /\ Cardinality(ConflictPlaces(Entity, field)) =
                    IF Cardinality(DistinctValues(Group, field)) > 1 THEN 1 ELSE 0
              /\ \A k \in ConflictPlaces(Entity, field) :
                    Entity.conflicts[k].values = DistinctValues(Group, field)
        /\ \A k \in 1..Len(Entity.conflicts) :
              Entity.conflicts[k].field \in Range(FieldOrder) \ {"id", "source"}

\* a conflict in a bucket field and one in another field, in a group whose
\* records differ in id and in source
C17_Witness ==
    /\ pc = "merged"
    /\ Len(Group) = 2
    /\ "source" \in DOMAIN Group[1]
    /\ "source" \notin DOMAIN Group[2]
    /\ Len(Entity.conflicts) = 2
    /\ {Entity.conflicts[k].field : k \in 1..2} = {"full_name", "linkedin"}

\* the view of the entity in which the values of a field are kept
ViewOf(entity, field) ==
    CASE field \in {"full_name", "first_name", "last_name"} -> entity.all_names
      [] field = "email" -> entity.all_emails
      [] field = "phone" -> entity.all_phones
      [] field = "company" -> entity.all_companies
      [] field = "title" -> entity.all_titles
      [] OTHER -> OtherEntries(entity, field)

\* C18: merging discards no source value: every non-empty value of a field
\* other than id and source of a record of the group is in the entity's
\* view of that field (its bucket, or other_fields under the field name),
\* also when another record holds a different value.
C18_NoSourceValueDiscarded ==
    pc = "merged" =>
        \A m \in 1..Len(Group) :
            \A field \in DOMAIN Group[m] \ {"id", "source"} :
                HasValue(Group[m], field) =>
                    \E k \in 1..Len(ViewOf(Entity, field)) :
                        ViewOf(Entity, field)[k].value = Group[m][field]

\* two records that differ in the name and in another field
C18_Witness ==
    /\ pc = "merged"
    /\ Len(Group) = 2
    /\ HasValue(Group[1], "full_name") /\ HasValue(Group[2], "full_name")
    /\ Group[1].full_name # Group[2].full_name
    /\ HasValue(Group[1], "linkedin") /\ HasValue(Group[2], "linkedin")
    /\ Group[1].linkedin # Group[2].linkedin
    /\ Len(Entity.all_names) = 2
    /\ Len(OtherEntries(Entity, "linkedin")) = 2

-----------------------------------------------------------------------------
(* Properties of the empty merge, checked under SpecMerge *)

\* C19: merge_entities called with zero records fails instead of returning
\* an entity (no entity without source records is ever returned or put in
\* merge_history), and the failed call leaves merge_history unchanged.
C19_EmptyGroupFails ==
    /\ [](/\ \A k \in 1..Len(merge_history) :
                merge_history[k].source_records # <<>>
          /\ \A k \in 1..Len(merged_entities) :
                merged_entities[k].source_records # <<>>)
    /\ [][pc' = "raised" =>
             /\ merge_history' = merge_history
             /\ merged_entities' = merged_entities]_vars

\* the empty call failed after a merge that is in merge_history
C19_Witness ==
    /\ pc = "raised"
    /\ Len(merge_history) = 1
    /\ Len(merge_history[1].source_records) = 2

-----------------------------------------------------------------------------
(* Properties of the scan over several batches, checked under Spec *)

\* the oracle failed for the batch: no attempt of the call returned, or the
\* answer is no JSON after fence-stripping
OracleFailed(cont) ==
    \/ cont.kind = "retry_error"
    \/ cont.kind = "text" /\ ~JsonLoads(StripFences(cont.shape), cont.json).ok

-----------------------------------------------------------------------------
(* Batching of the scan and the pairing of decisions with pairs, under Spec *)

\* the elements of a set of numbers in ascending order
RECURSIVE Ascending(_)
Ascending(S) ==
    IF S = {} THEN <<>>
    ELSE LET m == CHOOSE x \in S : \A y \in S : x <= y
         IN  <<m>> \o Ascending(S \ {m})

\* the entry of the duplicates list for the pair at position k of the batch
\* that starts at start, with the confidence of the decision at position k
EntryAt(start, decs, k) ==
    <<pairs_to_compare[start + k][1], pairs_to_compare[start + k][2],
      decs[k].confidence>>

\* C21: the pairs are dispatched in consecutive batches of batch_size in
\* generation order (a batch starts at a multiple of batch_size, holds the
\* pairs from there on, batch_size of them unless it is the last, and the
\* scan ends only behind the last pair), and the entries a batch appends to
\* duplicates are, in order, the pairs at the positions of decisions of that
\* batch that ask for a merge, each with the confidence of the decision at
\* its own position.
C21_BatchesInOrderDecisionsPositional ==
    [][IF pc = "scan" /\ BatchAdvanced
       THEN /\ batch_start % batch_size = 0
            /\ batch_start < Len(pairs_to_compare)
            /\ Len(pair_contacts) = Len(pairs_to_compare)
            /\ batch_indices' =
                  [k \in 1..Len(batch_indices') |-> pair_contacts[batch_start + k]]
            /\ \/ Len(batch_indices') = batch_size
               \/ /\ Len(batch_indices') < batch_size
                  /\ batch_start + Len(batch_indices') = Len(pairs_to_compare)
            /\ pc' = "scan" => batch_start' = batch_start + Len(batch_indices')
            /\ pc' = "tail" =>
                  batch_start + Len(batch_indices') = Len(pairs_to_compare)
            /\ \E S \in SUBSET (1..Len(batch_indices')) :
                  /\ \A k \in S : /\ k <= Len(decisions')
                                  /\ Truthy(decisions'[k].should_merge)
                  /\ duplicates' =
                        duplicates \o
                        [m \in 1..Cardinality(S) |->
                            EntryAt(batch_start, decisions', Ascending(S)[m])]
       ELSE UNCHANGED <<batch_start, duplicates>>]_vars

\* the scan of ten pairs is over: the second, short batch has appended its
\* last pair after the first batch had appended its second pair
C21_Witness ==
    /\ pc = "tail"
    /\ Len(pairs_to_compare) = batch_size + 4
    /\ batch_start = batch_size
    /\ Len(batch_indices) = 4
    /\ Len(duplicates) = 2
    /\ duplicates[1][1] = pairs_to_compare[2][1]
    /\ duplicates[1][2] = pairs_to_compare[2][2]
    /\ duplicates[2][1] = pairs_to_compare[batch_size + 4][1]
    /\ duplicates[2][2] = pairs_to_compare[batch_size + 4][2]

-----------------------------------------------------------------------------
(* Progress of a run of deduplicate *)

\* where the run is: the statement, the attempt of the call, the batch
position == <<pc, attempts, batch_start>>

\* a step the program takes by itself: pair generation (pipeline.py:44-66),
\* an attempt of an oracle call that returns or fails with what follows it
\* (entity_resolver.py:135-148, pipeline.py:72-109) and the code after the
\* scan (pipeline.py:111-147). Every such step of Next changes position, and
\* a step of Next from these statements is such a step. The answer to
\* input() at pipeline.py:67 is the operator's: it is no step of the program
ProgramStep ==
    /\ pc \in {"start", "scan", "tail"}
    /\ pc' \in {"confirm", "scan", "tail", "raised", "done"}
    /\ attempts' \in 0..MaxAttempts
    /\ batch_start' \in {batch_start, batch_start + batch_size}

\* the interpreter goes on with the program while the program has a step to
\* take, and every attempt of an oracle call returns or fails
SpecLive == Init /\ [][Next]_vars /\ WF_position(ProgramStep)

\* C22: provided every attempt of an oracle call eventually returns or
\* fails, every run of deduplicate eventually returns its output and stats,
\* without waiting on any other event.
C22_DeduplicateReturns == <>(pc = "done")

-----------------------------------------------------------------------------
(* A run that is interrupted between two batches *)

\* KeyboardInterrupt is raised in time.sleep at pipeline.py:73, before the
\* call of the batch at batch_start. No except clause of find_duplicates,
\* deduplicate or the main script catches it (should_merge's and tenacity's
\* catch Exception, inside the call only): it ends the run
Interrupt ==
    /\ pc = "scan"
    /\ attempts = 0
    /\ pc' = "interrupted"
    /\ UNCHANGED <<evaluation, contacts, blocks, pairs_to_compare, pair_contacts, answer, proceed,
                   batch_start, attempts, content, decisions, batch_indices,
                   compared, duplicates, merges_used, merge_groups,
                   merged_entities, merge_history, output, stats>>

NextInterrupt == Next \/ Interrupt

SpecInterrupt == Init /\ [][NextInterrupt]_vars

\* C23: a run interrupted between two batches still produces merge groups,
\* built from exactly the pairs accepted before the interruption.
C23_InterruptedRunStillGroups ==
    (pc = "interrupted" /\ batch_start > 0) =>
        merge_groups = _build_merge_groups(duplicates)

-----------------------------------------------------------------------------
(* The confirmation prompt, with the lines an operator may type *)

\* lines read by input() at pipeline.py:67
Answers == {"y", "Y", " y ", " Y", "n", "N", "", "Yes"}

InitPrompt == Init /\ Len(contacts) <= MaxPromptContacts

NextPrompt ==
    \/ GeneratePairs
    \/ \E line \in Answers : Confirm(line)
    \/ CallFails
    \/ CallReturns
    \/ FinishDeduplicate

SpecPrompt == InitPrompt /\ [][NextPrompt]_vars

\* an oracle call is in progress or has been made
OracleCalled == pc = "scan" \/ attempts > 0 \/ content.kind # "none"

\* the prompt lets the scan go on for the answers yes only: before the answer
\* and after any other answer no oracle call is issued, and after another
\* answer find_duplicates returns no pairs and deduplicate returns the input
\* records as they are, with zero pairs, groups and reduction
PromptGates(yes) ==
    /\ pc \in {"start", "confirm"} => ~OracleCalled
    /\ OracleCalled => answer \in yes
    /\ (pc \notin {"start", "confirm"} /\ answer \notin yes) =>
          /\ pc \in {"tail", "done"}
          /\ duplicates = <<>>
          /\ compared = 0
          /\ pc = "done" =>
                /\ output = contacts
                /\ merge_groups = <<>>
                /\ stats.original_count = Len(contacts)
                /\ stats.final_count = Len(contacts)
                /\ stats.duplicate_pairs_found = 0
                /\ stats.merge_groups = 0
                /\ stats.reduction = 0

\* C24 as stated: after any answer other than 'y' no oracle call is ever
\* issued, find_duplicates returns no pairs and deduplicate returns the input
\* unchanged with zero statistics; no oracle call precedes the confirmation.
C24_OnlyYProceeds == PromptGates({"y"})

\* the answers that are 'y' once stripped of blanks and lower-cased
Affirmative == {"y", "Y", " y ", " Y"}

\* C24 amended: after any answer that is other than 'y' once stripped of
\* surrounding blanks and lower-cased, no oracle call is ever issued,
\* find_duplicates returns no pairs and deduplicate returns the input records
\* unchanged and in input order with duplicate_pairs_found = 0,
\* merge_groups = 0 and reduction = 0; no oracle call is issued before the
\* operator has confirmed.
C24_OnlyNormalisedYProceeds == PromptGates(Affirmative)

\* the operator typed "Yes" for two records of one company: the run is over
\* and the pair was never sent to the oracle
C24_Witness ==
    /\ pc = "done"
    /\ answer = "Yes"
    /\ Len(pairs_to_compare) = 1
    /\ content.kind = "none"
    /\ output = contacts
    /\ stats.reduction = 0

-----------------------------------------------------------------------------
(* Sizes of the merge groups and the statistics of a run, under Spec *)

\* the ids of the records of a list
IdsOf(records) == {records[m].id : m \in 1..Len(records)}

\* C25: every merge group built from the accepted pairs of a scan over
\* records with unique ids has at least two members, all different input
\* records; merge_entities is never called with an empty group in
\* deduplicate, and every merged entity of the output stands for at least
\* two input records.
C25_GroupsHaveAtLeastTwoMembers ==
    /\ \A k \in 1..Len(merge_groups) :
          /\ ~MergeRaises(merge_groups[k])
          /\ Len(merge_groups[k]) >= 2
          /\ Cardinality(IdsOf(merge_groups[k])) = Len(merge_groups[k])
          /\ Range(merge_groups[k]) \subseteq Range(contacts)
    /\ Len(merged_entities) = Len(merge_groups)
    /\ \A q \in 1..Len(output) :
          IsEntity(output[q]) =>
             /\ Cardinality(IdsOf(output[q].source_records)) >= 2
             /\ IdsOf(output[q].source_records) \subseteq InputIds

\* a run whose accepted pairs form a group of two and a group of three
C25_Witness ==
    /\ pc = "done"
    /\ Len(merge_groups) = 2
    /\ \E k \in 1..2 : Len(merge_groups[k]) = 2
    /\ \E k \in 1..2 : Len(merge_groups[k]) = 3
    /\ Len(output) = 2

\* C26: for every run of deduplicate over records with unique ids,
\* merge_groups <= reduction <= duplicate_pairs_found, and reduction = 0
\* exactly when duplicate_pairs_found = 0.
C26_StatisticsOrdered ==
    pc = "done" =>
        /\ stats.merge_groups = Len(merge_groups)
        /\ stats.duplicate_pairs_found = Len(duplicates)
        /\ stats.merge_groups <= stats.reduction
        /\ stats.reduction <= stats.duplicate_pairs_found
        /\ stats.reduction = 0 <=> stats.duplicate_pairs_found = 0

\* a run with three accepted pairs in one group of three: 1 < 2 < 3
C26_Witness ==
    /\ pc = "done"
    /\ stats.merge_groups = 1
    /\ stats.reduction = 2
    /\ stats.duplicate_pairs_found = 3

-----------------------------------------------------------------------------
(* Evaluator.evaluate, evaluator.py:73-129 (sample_size is None) *)

\* a local that is not bound yet
Unbound == [t |-> "unbound", v |-> 0]

\* contact_lookup = {c['id']: c for c in contacts} and contact_lookup.get(id):
\* the last record with the id, None (JNull) if there is none
ContactLookupGet(cs, id) ==
    LET at == {i \in 1..Len(cs) : cs[i].id = id}
    IN  IF at = {} THEN JNull
        ELSE cs[CHOOSE i \in at : \A j \in at : j <= i]

\* Python == between two scalars (True == 1.0)
PyEqual(x, y) ==
    IF Comparable(x) /\ Comparable(y) THEN NumVal(x) = NumVal(y)
    ELSE x.t = y.t /\ x.v = y.v

\* the loop of evaluator.py:93-102 over the ground-truth rows; entity_a and
\* entity_b are locals of evaluate and keep the values of the last row. A
\* record with an id is a non-empty dict, so not entity_a is entity_a is None
RECURSIVE PairRows(_, _, _)
PairRows(rows, cs, st) ==
    IF rows = <<>> THEN st
    ELSE LET gt == Head(rows)
             a == ContactLookupGet(cs, gt.entity_a_id)
             b == ContactLookupGet(cs, gt.entity_b_id)
         IN  PairRows(Tail(rows), cs,
                IF a = JNull \/ b = JNull
                THEN [st EXCEPT !.entity_a = a, !.entity_b = b]
                ELSE [st EXCEPT !.entity_a = a, !.entity_b = b,
                                !.eval_pairs = Append(@, <<a, b>>),
                                !.eval_ground_truth = Append(@, gt)])

\* the loop of evaluator.py:116-129 over zip(decisions, batch_gt)
RECURSIVE ScoreDecisions(_, _)
ScoreDecisions(zipped, st) ==
    IF zipped = <<>> THEN st
    ELSE LET decision == Head(zipped)[1]
             gt == Head(zipped)[2]
         IN  ScoreDecisions(
                Tail(zipped),
                [st EXCEPT
                   !.y_true = Append(@, gt.is_match),
                   !.y_pred = Append(@, decision.should_merge),
                   !.confidences = Append(@, decision.confidence),
                   !.errors =
                      IF ~PyEqual(gt.is_match, decision.should_merge)
                      THEN Append(@, [entity_a |-> st.entity_a,
                                      entity_b |-> st.entity_b,
                                      ground_truth |-> gt.is_match,
                                      prediction |-> decision.should_merge,
                                      confidence |-> decision.confidence,
                                      reasoning |-> decision.reasoning])
                      ELSE @])

\* the contacts of an evaluation, and an id none of them has
EvalContacts == <<RecordAt(1, "Acme"), RecordAt(2, "Acme"), RecordAt(3, "")>>
AbsentId == "r9"

Row(a, b, is_match) ==
    [entity_a_id |-> a, entity_b_id |-> b, is_match |-> JBool(is_match)]

\* rows of ground_truth.json: labelled pairs of ids, some of an absent id
TruthRows ==
    {Row(p[1], p[2], m) :
        p \in {<<"r1", "r2">>, <<"r2", "r3">>, <<"r1", AbsentId>>,
               <<AbsentId, "r3">>},
        m \in BOOLEAN}

\* batch_size + 1 rows of present ids around a row of an absent id
LongTruth ==
    [k \in 1..(batch_size + 2) |->
        IF k = 3 THEN Row("r1", AbsentId, TRUE)
        ELSE IF k % 2 = 1 THEN Row("r1", "r2", TRUE)
        ELSE Row("r2", "r3", FALSE)]

GroundTruths ==
    UNION {[1..n -> TruthRows] : n \in 0..MaxRows} \cup {LongTruth}

InitEval ==
    /\ pc = "evaluate"
    /\ contacts = EvalContacts
    /\ evaluation \in
          {[ground_truth |-> g, eval_pairs |-> <<>>, eval_ground_truth |-> <<>>,
            entity_a |-> Unbound, entity_b |-> Unbound, batch_start |-> 0,
            decisions |-> <<>>, y_true |-> <<>>, y_pred |-> <<>>,
            confidences |-> <<>>, errors |-> <<>>] : g \in GroundTruths}
    /\ blocks = <<>>
    /\ pairs_to_compare = <<>>
    /\ pair_contacts = <<>>
    /\ proceed = ""
    /\ answer = ""
    /\ batch_start = 0
    /\ attempts = 0
    /\ content = [kind |-> "none"]
    /\ decisions = <<>>
    /\ batch_indices = <<>>
    /\ compared = 0
    /\ duplicates = <<>>
    /\ merges_used = 0
    /\ merge_groups = <<>>
    /\ merged_entities = <<>>
    /\ merge_history = <<>>
    /\ output = <<>>
    /\ stats = [original_count |-> 0]

\* evaluate up to the batch loop, evaluator.py:84-104
CollectEvalPairs ==
    /\ pc = "evaluate"
    /\ evaluation' = PairRows(evaluation.ground_truth, contacts, evaluation)
    /\ pc' = IF evaluation'.eval_pairs = <<>> THEN "eval_metrics" ELSE "eval_scan"
    /\ UNCHANGED <<contacts, blocks, pairs_to_compare, pair_contacts, answer,
                   proceed, batch_start, attempts, content, decisions,
                   batch_indices, compared, duplicates, merges_used,
                   merge_groups, merged_entities, merge_history, output, stats>>

\* one iteration of the batch loop, evaluator.py:105-129, _call_llm having
\* produced cont for the batch; after the last batch the metrics follow
\* (evaluator.py:131-154, computed by sklearn from y_true and y_pred)
EvalBatch(cont) ==
    /\ pc = "eval_scan"
    /\ LET start == evaluation.batch_start
           batch_pairs == Slice(evaluation.eval_pairs, start, start + batch_size)
           batch_gt == Slice(evaluation.eval_ground_truth, start, start + batch_size)
           decs == should_merge(Len(batch_pairs), cont)
           st == ScoreDecisions(Zip(decs, batch_gt), evaluation)
           more == start + batch_size < Len(evaluation.eval_pairs)
       IN  /\ evaluation' =
                 [st EXCEPT !.decisions = decs,
                            !.batch_start = IF more THEN start + batch_size ELSE @]
           /\ pc' = IF more THEN "eval_scan" ELSE "eval_metrics"
    /\ UNCHANGED <<contacts, blocks, pairs_to_compare, pair_contacts, answer,
                   proceed, batch_start, attempts, content, decisions,
                   batch_indices, compared, duplicates, merges_used,
                   merge_groups, merged_entities, merge_history, output, stats>>

\* what _call_llm may produce for a batch of n pairs
CallOutcomes(n) ==
    {r.content : r \in Responses(n, n)} \cup {[kind |-> "retry_error"]}

NextEval ==
    \/ CollectEvalPairs
    \/ \E cont \in CallOutcomes(Len(Slice(evaluation.eval_pairs,
                                          evaluation.batch_start,
                                          evaluation.batch_start + batch_size))) :
          EvalBatch(cont)

SpecEval == InitEval /\ [][NextEval]_vars

-----------------------------------------------------------------------------
(* Properties of evaluate, checked under SpecEval *)

\* the rows of ground_truth whose two ids are ids of contacts, in order
PresentRows ==
    SelectSeq(evaluation.ground_truth,
              LAMBDA gt : /\ gt.entity_a_id \in IdsOf(contacts)
                          /\ gt.entity_b_id \in IdsOf(contacts))

\* rows of absent ids are skipped and the other rows keep their places: the
\* k-th pair is the pair of records of the k-th remaining row
RowsStayAligned ==
    pc \in {"eval_scan", "eval_metrics"} =>
        /\ evaluation.eval_ground_truth = PresentRows
        /\ Len(evaluation.eval_pairs) = Len(PresentRows)
        /\ \A k \in 1..Len(PresentRows) :
              /\ evaluation.eval_pairs[k][1] \in Range(contacts)
              /\ evaluation.eval_pairs[k][2] \in Range(contacts)
              /\ evaluation.eval_pairs[k][1].id = PresentRows[k].entity_a_id
              /\ evaluation.eval_pairs[k][2].id = PresentRows[k].entity_b_id

\* the positions of the batch in progress that have a decision, decs being
\* the decisions of the batch
Decided(decs) ==
    LET left == Len(evaluation.eval_pairs) - evaluation.batch_start
        n == IF left < batch_size THEN left ELSE batch_size
    IN  1..(IF Len(decs) < n THEN Len(decs) ELSE n)

\* the remaining row at position k of the batch in progress, and its pair
RowAt(k) == evaluation.eval_ground_truth[evaluation.batch_start + k]
PairAt(k) == evaluation.eval_pairs[evaluation.batch_start + k]

\* a batch scores each decision against the label of the row at the
\* decision's position
DecisionsMeetTheirRows ==
    pc = "eval_scan" =>
        LET decs == evaluation'.decisions
        IN  /\ evaluation'.y_true =
                  evaluation.y_true \o
                  [k \in Decided(decs) |-> RowAt(k).is_match]
            /\ evaluation'.y_pred =
                  evaluation.y_pred \o
                  [k \in Decided(decs) |-> decs[k].should_merge]

\* the positions of the batch whose prediction differs from the label
Mistaken(decs) ==
    {k \in Decided(decs) : ~PyEqual(RowAt(k).is_match, decs[k].should_merge)}

\* the entries a batch appends to errors are those of its mistaken
\* positions, in order, each with the two records of the pair at its position
ErrorsNameTheirPair ==
    pc = "eval_scan" =>
        LET decs == evaluation'.decisions
            ks == Ascending(Mistaken(decs))
        IN  evaluation'.errors =
               evaluation.errors \o
               [m \in 1..Len(ks) |->
                   [entity_a |-> PairAt(ks[m])[1],
                    entity_b |-> PairAt(ks[m])[2],
                    ground_truth |-> RowAt(ks[m]).is_match,
                    prediction |-> decs[ks[m]].should_merge,
                    confidence |-> decs[ks[m]].confidence,
                    reasoning |-> decs[ks[m]].reasoning]]

\* C27: in evaluate a ground-truth row of an id that no contact has is
\* skipped without failing the run and without shifting the alignment of
\* the other rows with their decisions, and every entry of errors records
\* as entity_a / entity_b the two records of the pair whose prediction
\* differed from its label.
C27_EvaluateAlignsRowsAndErrors ==
    /\ []RowsStayAligned
    /\ [][DecisionsMeetTheirRows /\ ErrorsNameTheirPair]_vars

====
